---- MODULE Spec2Model ----
(***************************************************************************)
(* Model of Tutorial-Codebase-Knowledge/utils/call_llm.py: the logger      *)
(* set-up executed at import time and call_llm(prompt, use_cache), a       *)
(* wrapper around ollama.generate with a JSON file cache (llm_cache.json). *)
(*                                                                         *)
(* Strings are sequences of tokens, so that concatenation (f-strings) and  *)
(* str.strip() are computed.  The cache file is its kind (absent, a JSON   *)
(* object, or one of the contents json.load does not turn into a dict)     *)
(* plus the mapping it holds.  Every process p is one Python process that  *)
(* imported the module; all processes share the cache file.                *)
(***************************************************************************)
EXTENDS Integers, Sequences, FiniteSets, TLC

\* ------------------------------------------------------------------ bounds
MaxCalls == 2
MaxImports == 2

Procs == {1, 2}
Prompts == {"P1", "P2"}

\* ------------------------------------------------------------- strings
Whitespace == {" ", "\n"}

\* Texts the endpoint may put in response_data['response'].
RawTexts == { <<"a">>, <<" ", "a", "\n">>, <<"b">> }

\* Details str(e) of the exceptions the endpoint invocation may raise
\* (ollama.generate failing, or response_data['response'] missing).
FailureDetails == { <<"connection refused">>, <<"'response'">> }

RECURSIVE lstrip(_)
lstrip(s) == IF s # <<>> /\ Head(s) \in Whitespace THEN lstrip(Tail(s)) ELSE s

RECURSIVE rstrip(_)
rstrip(s) == IF s # <<>> /\ s[Len(s)] \in Whitespace
             THEN rstrip(SubSeq(s, 1, Len(s) - 1)) ELSE s

\* str.strip()
strip(s) == rstrip(lstrip(s))

StrippedTexts == { strip(r) : r \in RawTexts }

\* ---------------------------------------------------------- cache file
\* cache values: a Python dict or a Python list (what json.load may return)
EmptyMap == [k \in {} |-> <<>>]
EmptyDict == [type |-> "dict", data |-> EmptyMap]
EmptyList == [type |-> "list", data |-> EmptyMap]

Maps == UNION { [S -> StrippedTexts] : S \in SUBSET Prompts }

\* Contents of llm_cache.json:
\*   absent        the file does not exist
\*   json_object   a JSON object {prompt: response}
\*   invalid_json  text that is not JSON (also the empty, truncated file)
\*   not_utf8      bytes that do not decode as text
\*   json_array    the JSON document []
AbsentFile == [kind |-> "absent", data |-> EmptyMap]
TruncatedFile == [kind |-> "invalid_json", data |-> EmptyMap]
CorruptKinds == {"invalid_json", "not_utf8", "json_array"}
CorruptFiles == { [kind |-> k, data |-> EmptyMap] : k \in CorruptKinds }
ObjectFiles == { [kind |-> "json_object", data |-> m] : m \in Maps }
Files == {AbsentFile} \cup ObjectFiles \cup CorruptFiles

\* os.path.exists(cache_file)
exists(f) == f.kind # "absent"

\* json.load(f) on an opened file: the value, or the exception raised
json_load(f) ==
  CASE f.kind = "json_object" -> [exc |-> "none", value |-> [type |-> "dict", data |-> f.data]]
    [] f.kind = "json_array" -> [exc |-> "none", value |-> EmptyList]
    [] f.kind = "invalid_json" -> [exc |-> "JSONDecodeError", value |-> EmptyDict]
    [] f.kind = "not_utf8" -> [exc |-> "UnicodeDecodeError", value |-> EmptyDict]
    [] OTHER -> [exc |-> "FileNotFoundError", value |-> EmptyDict]

\* json.dump(cache, f, indent=4) of a dict of strings
json_dump(c) == [kind |-> "json_object", data |-> c.data]

\* the exceptions the two except clauses around json.load name
CaughtOnLoad == {"JSONDecodeError", "IOError"}

\* a membership test that looks among the values instead of the keys
Contains_values(c, key) ==
  IF c.type = "dict" THEN \E k \in DOMAIN c.data : c.data[k] = key ELSE FALSE

\* `prompt in cache`
Contains(c, key) == IF c.type = "dict" THEN key \in DOMAIN c.data ELSE FALSE

\* an update that forgets the insertion
SetItem_forgets(c, key, val) == c

\* an update that keeps the value of a key already present
SetItem_setdefault(c, key, val) ==
  [type |-> "dict",
   data |-> [k \in (DOMAIN c.data) \cup {key} |->
               IF k \in DOMAIN c.data THEN c.data[k] ELSE val]]

\* an update that starts a new mapping
SetItem_replaces(c, key, val) ==
  [type |-> "dict", data |-> [k \in {key} |-> val]]

\* `cache[prompt] = response_text` on a dict
SetItem(c, key, val) ==
  [type |-> "dict",
   data |-> [k \in (DOMAIN c.data) \cup {key} |-> IF k = key THEN val ELSE c.data[k]]]

\* ------------------------------------------------------------ log lines
LevelNo(level) == CASE level = "INFO" -> 20 [] level = "WARNING" -> 30 [] level = "ERROR" -> 40

\* logger.setLevel(logging.INFO)
LoggerLevel == 20

DefaultModel == "qwen2.5-32k"

PromptLine(p) == <<"PROMPT: ", p>>
CachedLine(r) == <<"RESPONSE (cached): ">> \o r
CallingLine(m) == <<"Calling Ollama model: ", m>>
OllamaLine(r) == <<"RESPONSE (Ollama): ">> \o r
ErrorLine(e) == <<"Error calling Ollama: ">> \o e
LoadWarnLine(e) == <<"Failed to load cache file 'llm_cache.json': ", e, ". Starting with empty cache.">>
ReloadWarnLine(e) == <<"Failed to reload cache before saving: ", e, ". Overwriting might occur.">>
SaveErrorLine(e) == <<"Failed to save cache to 'llm_cache.json': ", e>>

\* the value returned when the endpoint invocation fails
ErrorPrefix == "Error: Could not get response from Ollama. Details: "

\* a sentinel that leaves the exception out
ErrorSentinel_bare(e) == <<ErrorPrefix>>

ErrorSentinel(e) == <<ErrorPrefix>> \o e


\* --------------------------------------------------------------- state
VARIABLES
  file,           \* contents of llm_cache.json, shared by all processes
  environ,        \* environ[p]: OLLAMA_MODEL of process p ("unset" or a name)
  handlers,       \* handlers[p]: logger.handlers of 'llm_logger' in process p
  propagate,      \* propagate[p]: logger.propagate
  imports,        \* imports[p]: times the module body ran in process p
  pc,             \* pc[p]: position of process p inside call_llm
  prompt,         \* arguments of the running call
  use_cache,
  cache,          \* the local variable `cache`
  response_text,  \* the local variable `response_text`
  result,         \* what the call hands to its caller
  trace,          \* trace[p]: log records and I/O operations of the running call
  reply,          \* what the endpoint answered in the running call
  file0,          \* file0[p]: contents of the cache file when the call began
  snap,           \* snap[p]: contents of the cache file at the load and at the reload
  saved,          \* outcome of the cache save of the running call
  calls,          \* calls[p]: completed calls
  prev,           \* prev[p]: summary of the last completed call
  last_writer     \* process whose json.dump reached the file last (0: none)

vars == <<file, environ, handlers, propagate, imports, pc, prompt, use_cache,
          cache, response_text, result, trace, reply, file0, snap, saved, calls,
          prev, last_writer>>

logger_vars == <<handlers, propagate, imports>>
call_vars == <<pc, prompt, use_cache, cache, response_text, result, trace, reply,
               file0, snap, saved>>

ModelEnv == {"unset", "llama3"}

\* os.getenv("OLLAMA_MODEL", "qwen2.5-32k")
getenv_model(e) == IF e = "unset" THEN DefaultModel ELSE e

NoResult == [kind |-> "none", value |-> <<>>]
Returned(v) == [kind |-> "value", value |-> v]
Raised(e) == [kind |-> "exception", value |-> <<e>>]

NoReply == [called |-> FALSE, ok |-> FALSE, text |-> <<>>]
Reply(ok, text) == [called |-> TRUE, ok |-> ok, text |-> text]

NoSnap == [load |-> AbsentFile, reload |-> AbsentFile]

NoCall == [prompt |-> "", use_cache |-> FALSE, result |-> NoResult,
           generated |-> 0, saved |-> "none", model |-> ""]

\* trace entries
LogEv(level, msg) == [ev |-> "log", level |-> level, msg |-> msg]
IoEv(op) == [ev |-> op, level |-> "-", msg |-> <<>>]

\* a logger that was left propagating to its parent
Deliveries_propagating(h, prop, level, msg) ==
  [i \in 1..(Len(h) + 1) |-> LogEv(level, msg)]

\* logger.info / logger.warning / logger.error: the record goes to every
\* handler of the logger, and to the parent's sink when propagate is set
Deliveries(h, prop, level, msg) ==
  IF LevelNo(level) < LoggerLevel THEN <<>>
  ELSE [i \in 1..(Len(h) + (IF prop THEN 1 ELSE 0)) |-> LogEv(level, msg)]

Emit(p, level, msg) == Deliveries(handlers[p], propagate[p], level, msg)

\* a set-up that adds a handler every time the module body runs
AddHandlerIfNone_always(h) == Append(h, "file_handler")

\* `if not logger.handlers: logger.addHandler(file_handler)`
AddHandlerIfNone(h) == IF h = <<>> THEN Append(h, "file_handler") ELSE h

\* lines 44-50 and 88-93: the value of `cache` after the guarded load, or
\* the exception json.load raised; io_fail: open() raises an OSError
load_cache(f, io_fail) ==
  IF ~exists(f) THEN [exc |-> "none", value |-> EmptyDict, read |-> FALSE]
  ELSE IF io_fail THEN [exc |-> "IOError", value |-> EmptyDict, read |-> TRUE]
  ELSE [exc |-> json_load(f).exc, value |-> json_load(f).value, read |-> TRUE]

ReadEvents(l) == IF l.read THEN <<IoEv("read")>> ELSE <<>>

Count(seq, op) == Cardinality({i \in 1..Len(seq) : seq[i].ev = op})

TypeOK ==
  /\ file \in Files
  /\ environ \in [Procs -> ModelEnv]
  /\ imports \in [Procs -> 0..MaxImports]
  /\ propagate \in [Procs -> BOOLEAN]
  /\ pc \in [Procs -> {"idle", "load", "generate", "reload", "save", "dump", "done", "raised"}]
  /\ prompt \in [Procs -> Prompts \cup {""}]
  /\ use_cache \in [Procs -> BOOLEAN]
  /\ calls \in [Procs -> 0..MaxCalls]
  /\ saved \in [Procs -> {"none", "ok", "failed"}]
  /\ last_writer \in Procs \cup {0}

\* The state of freshly started Python processes: the logging module's
\* defaults for a logger nobody configured, no call running.
Init ==
  /\ file \in Files
  /\ environ \in [Procs -> ModelEnv]
  /\ handlers = [p \in Procs |-> <<>>]
  /\ propagate = [p \in Procs |-> TRUE]
  /\ imports = [p \in Procs |-> 0]
  /\ pc = [p \in Procs |-> "idle"]
  /\ prompt = [p \in Procs |-> ""]
  /\ use_cache = [p \in Procs |-> FALSE]
  /\ cache = [p \in Procs |-> EmptyDict]
  /\ response_text = [p \in Procs |-> <<>>]
  /\ result = [p \in Procs |-> NoResult]
  /\ trace = [p \in Procs |-> <<>>]
  /\ reply = [p \in Procs |-> NoReply]
  /\ file0 = [p \in Procs |-> AbsentFile]
  /\ snap = [p \in Procs |-> NoSnap]
  /\ saved = [p \in Procs |-> "none"]
  /\ calls = [p \in Procs |-> 0]
  /\ prev = [p \in Procs |-> NoCall]
  /\ last_writer = 0

\* ------------------------------------------------------------- actions
\* lines 13-20: the module body (first import, or importlib.reload)
ImportModule(p) ==
  /\ pc[p] = "idle"
  /\ imports[p] < MaxImports
  /\ imports' = [imports EXCEPT ![p] = @ + 1]
  /\ propagate' = [propagate EXCEPT ![p] = FALSE]
  /\ handlers' = [handlers EXCEPT ![p] = AddHandlerIfNone(@)]
  /\ UNCHANGED <<file, environ, call_vars, calls, prev, last_writer>>

\* the user changes OLLAMA_MODEL between calls
Setenv(p, m) ==
  /\ pc[p] = "idle"
  /\ environ[p] # m
  /\ environ' = [environ EXCEPT ![p] = m]
  /\ UNCHANGED <<file, logger_vars, call_vars, calls, prev, last_writer>>

\* a call that consults the cache whatever use_cache says
cache_branch_always(uc) == "load"

\* line 42, `if use_cache:`: where the call goes after logging the prompt
cache_branch(uc) == IF uc THEN "load" ELSE "generate"

\* a cache keyed by the prompt and the model identifier
cache_key_with_model(pr, m) == pr \o "@" \o m

\* lines 53-54 and 96: the key of the cache is the prompt text; the model
\* identifier m in force is no part of it
cache_key(pr, m) == pr

\* lines 26-41: entry, `logger.info(PROMPT)`, `cache = {}`
Begin(p, pr, uc) ==
  /\ pc[p] = "idle"
  /\ imports[p] > 0
  /\ calls[p] < MaxCalls
  /\ prompt' = [prompt EXCEPT ![p] = pr]
  /\ use_cache' = [use_cache EXCEPT ![p] = uc]
  /\ trace' = [trace EXCEPT ![p] = Emit(p, "INFO", PromptLine(pr))]
  /\ cache' = [cache EXCEPT ![p] = EmptyDict]
  /\ response_text' = [response_text EXCEPT ![p] = <<>>]
  /\ result' = [result EXCEPT ![p] = NoResult]
  /\ saved' = [saved EXCEPT ![p] = "none"]
  /\ reply' = [reply EXCEPT ![p] = NoReply]
  /\ file0' = [file0 EXCEPT ![p] = file]
  /\ snap' = [snap EXCEPT ![p] = NoSnap]
  /\ pc' = [pc EXCEPT ![p] = cache_branch(uc)]
  /\ UNCHANGED <<file, environ, logger_vars, calls, prev, last_writer>>

\* lines 42-56: load the cache, return the cached response on a hit
LoadCache(p, io_fail) ==
  /\ pc[p] = "load"
  /\ io_fail => exists(file)
  /\ LET l == load_cache(file, io_fail)
         t1 == trace[p] \o ReadEvents(l)
     IN IF l.exc \notin CaughtOnLoad \cup {"none"}
        THEN \* the exception leaves call_llm
             /\ trace' = [trace EXCEPT ![p] = t1]
             /\ result' = [result EXCEPT ![p] = Raised(l.exc)]
             /\ pc' = [pc EXCEPT ![p] = "raised"]
             /\ UNCHANGED cache
        ELSE LET t2 == IF l.exc = "none" THEN t1
                       ELSE t1 \o Emit(p, "WARNING", LoadWarnLine(l.exc))
                 key == cache_key(prompt[p], getenv_model(environ[p]))
             IN /\ cache' = [cache EXCEPT ![p] = l.value]
                /\ IF Contains(l.value, key)
                   THEN /\ trace' = [trace EXCEPT ![p] =
                              t2 \o Emit(p, "INFO", CachedLine(l.value.data[key]))]
                        /\ result' = [result EXCEPT ![p] = Returned(l.value.data[key])]
                        /\ pc' = [pc EXCEPT ![p] = "done"]
                   ELSE /\ trace' = [trace EXCEPT ![p] = t2]
                        /\ pc' = [pc EXCEPT ![p] = "generate"]
                        /\ UNCHANGED result
  /\ snap' = [snap EXCEPT ![p].load = file]
  /\ UNCHANGED <<file, environ, logger_vars, prompt, use_cache, response_text,
                 reply, file0, saved, calls, prev, last_writer>>

\* a call that invokes the endpoint again after a failure
after_generate_retries(ok, uc) ==
  IF ~ok THEN "generate" ELSE IF uc THEN "reload" ELSE "done"

\* a call that updates the cache whatever happened
after_generate_saves(ok, uc) == "reload"

\* lines 77-84: where the call goes after the endpoint invocation: the
\* except clause returns, `if use_cache:` guards the cache update
after_generate(ok, uc) ==
  IF ~ok THEN "done" ELSE IF uc THEN "reload" ELSE "done"

\* lines 59-81: invoke the endpoint; ok = FALSE: the invocation raised with
\* str(e) = text, ok = TRUE: response_data['response'] = text
Generate(p, ok, text) ==
  /\ pc[p] = "generate"
  /\ LET m == getenv_model(environ[p])
         t1 == trace[p] \o Emit(p, "INFO", CallingLine(m)) \o <<IoEv("generate")>>
     IN /\ reply' = [reply EXCEPT ![p] = Reply(ok, text)]
        /\ IF ok
           THEN /\ response_text' = [response_text EXCEPT ![p] = strip(text)]
                /\ trace' = [trace EXCEPT ![p] = t1 \o Emit(p, "INFO", OllamaLine(strip(text)))]
                /\ pc' = [pc EXCEPT ![p] = after_generate(ok, use_cache[p])]
                /\ IF use_cache[p]
                   THEN UNCHANGED result
                   ELSE result' = [result EXCEPT ![p] = Returned(strip(text))]
           ELSE /\ trace' = [trace EXCEPT ![p] = t1 \o Emit(p, "ERROR", ErrorLine(text))]
                /\ result' = [result EXCEPT ![p] = Returned(ErrorSentinel(text))]
                /\ pc' = [pc EXCEPT ![p] = after_generate(ok, use_cache[p])]
                /\ UNCHANGED response_text
  /\ UNCHANGED <<file, environ, logger_vars, prompt, use_cache, cache,
                 file0, snap, saved, calls, prev, last_writer>>

\* a reload that keeps the mapping of the first load
reloaded_cache_reuses(old, l) == old

\* lines 87-91: `cache = {}`, then `cache = json.load(f)`: the mapping of the
\* first load is dropped, whatever the second load gives
reloaded_cache(old, l) == l.value

\* lines 84-93: `cache = {}` and the second read of the file
ReloadCache(p, io_fail) ==
  /\ pc[p] = "reload"
  /\ io_fail => exists(file)
  /\ LET l == load_cache(file, io_fail)
         t1 == trace[p] \o ReadEvents(l)
     IN IF l.exc \notin CaughtOnLoad \cup {"none"}
        THEN /\ trace' = [trace EXCEPT ![p] = t1]
             /\ result' = [result EXCEPT ![p] = Raised(l.exc)]
             /\ pc' = [pc EXCEPT ![p] = "raised"]
             /\ UNCHANGED cache
        ELSE /\ cache' = [cache EXCEPT ![p] = reloaded_cache(cache[p], l)]
             /\ trace' = [trace EXCEPT ![p] =
                   IF l.exc = "none" THEN t1
                   ELSE t1 \o Emit(p, "WARNING", ReloadWarnLine(l.exc))]
             /\ pc' = [pc EXCEPT ![p] = "save"]
             /\ UNCHANGED result
  /\ snap' = [snap EXCEPT ![p].reload = file]
  /\ UNCHANGED <<file, environ, logger_vars, prompt, use_cache, response_text,
                 reply, file0, saved, calls, prev, last_writer>>

\* a save without the except clause: the IOError leaves call_llm
SaveFailed_raises(p, t) ==
  /\ trace' = [trace EXCEPT ![p] = t]
  /\ saved' = [saved EXCEPT ![p] = "failed"]
  /\ result' = [result EXCEPT ![p] = Raised("IOError")]
  /\ pc' = [pc EXCEPT ![p] = "raised"]

\* lines 100-103: `except IOError`: the failure is logged and the call
\* returns response_text; t: the trace up to the failing operation
SaveFailed(p, t) ==
  /\ trace' = [trace EXCEPT ![p] = t \o Emit(p, "ERROR", SaveErrorLine("IOError"))]
  /\ saved' = [saved EXCEPT ![p] = "failed"]
  /\ result' = [result EXCEPT ![p] = Returned(response_text[p])]
  /\ pc' = [pc EXCEPT ![p] = "done"]

\* lines 96-98: `cache[prompt] = response_text`, then open(cache_file, 'w'),
\* which truncates the file or raises an OSError
SaveOpen(p, io_fail) ==
  /\ pc[p] = "save"
  /\ IF cache[p].type # "dict"
     THEN \* item assignment on a list: TypeError, outside every try block
          /\ ~io_fail
          /\ result' = [result EXCEPT ![p] = Raised("TypeError")]
          /\ pc' = [pc EXCEPT ![p] = "raised"]
          /\ UNCHANGED <<file, cache, trace, saved>>
     ELSE /\ cache' = [cache EXCEPT ![p] =
                 SetItem(@, cache_key(prompt[p], getenv_model(environ[p])),
                         response_text[p])]
          /\ IF io_fail
             THEN /\ SaveFailed(p, trace[p] \o <<IoEv("open_w")>>)
                  /\ UNCHANGED file
             ELSE /\ trace' = [trace EXCEPT ![p] = @ \o <<IoEv("open_w")>>]
                  /\ file' = TruncatedFile
                  /\ pc' = [pc EXCEPT ![p] = "dump"]
                  /\ UNCHANGED <<result, saved>>
  /\ UNCHANGED <<environ, logger_vars, prompt, use_cache, response_text,
                 reply, file0, snap, calls, prev, last_writer>>

\* lines 99-103: json.dump and the close of the file, then the return
SaveDump(p, io_fail) ==
  /\ pc[p] = "dump"
  /\ IF io_fail
     THEN /\ SaveFailed(p, trace[p])
          /\ UNCHANGED <<file, last_writer>>
     ELSE /\ trace' = [trace EXCEPT ![p] = @ \o <<IoEv("write")>>]
          /\ file' = json_dump(cache[p])
          /\ saved' = [saved EXCEPT ![p] = "ok"]
          /\ last_writer' = p
          /\ result' = [result EXCEPT ![p] = Returned(response_text[p])]
          /\ pc' = [pc EXCEPT ![p] = "done"]
  /\ UNCHANGED <<environ, logger_vars, prompt, use_cache, cache, response_text,
                 reply, file0, snap, calls, prev>>

\* control is back in the caller: the locals of the call are gone
Return(p) ==
  /\ pc[p] \in {"done", "raised"}
  /\ prev' = [prev EXCEPT ![p] = [prompt |-> prompt[p], use_cache |-> use_cache[p],
                                  result |-> result[p],
                                  generated |-> Count(trace[p], "generate"),
                                  saved |-> saved[p],
                                  model |-> getenv_model(environ[p])]]
  /\ calls' = [calls EXCEPT ![p] = @ + 1]
  /\ pc' = [pc EXCEPT ![p] = "idle"]
  /\ cache' = [cache EXCEPT ![p] = EmptyDict]
  /\ response_text' = [response_text EXCEPT ![p] = <<>>]
  /\ trace' = [trace EXCEPT ![p] = <<>>]
  /\ reply' = [reply EXCEPT ![p] = NoReply]
  /\ file0' = [file0 EXCEPT ![p] = AbsentFile]
  /\ snap' = [snap EXCEPT ![p] = NoSnap]
  /\ UNCHANGED <<file, environ, logger_vars, prompt, use_cache, result, saved,
                 last_writer>>

\* ------------------------------------------------------- specifications
\* one process, one call at a time
Main == 1

Next ==
  \/ ImportModule(Main)
  \/ \E m \in ModelEnv : Setenv(Main, m)
  \/ \E pr \in Prompts, uc \in BOOLEAN : Begin(Main, pr, uc)
  \/ \E io_fail \in BOOLEAN : LoadCache(Main, io_fail)
  \/ \E ok \in BOOLEAN : \E text \in (IF ok THEN RawTexts ELSE FailureDetails) :
        Generate(Main, ok, text)
  \/ \E io_fail \in BOOLEAN : ReloadCache(Main, io_fail)
  \/ \E io_fail \in BOOLEAN : SaveOpen(Main, io_fail)
  \/ \E io_fail \in BOOLEAN : SaveDump(Main, io_fail)
  \/ Return(Main)

Spec == Init /\ [][Next]_vars

\* two processes sharing llm_cache.json, each after its import of the module,
\* each making one call: their steps interleave in every order
InitConc ==
  /\ file \in Files
  /\ environ \in [Procs -> ModelEnv]
  /\ handlers = [p \in Procs |-> AddHandlerIfNone(<<>>)]
  /\ propagate = [p \in Procs |-> FALSE]
  /\ imports = [p \in Procs |-> 1]
  /\ pc = [p \in Procs |-> "idle"]
  /\ prompt = [p \in Procs |-> ""]
  /\ use_cache = [p \in Procs |-> FALSE]
  /\ cache = [p \in Procs |-> EmptyDict]
  /\ response_text = [p \in Procs |-> <<>>]
  /\ result = [p \in Procs |-> NoResult]
  /\ trace = [p \in Procs |-> <<>>]
  /\ reply = [p \in Procs |-> NoReply]
  /\ file0 = [p \in Procs |-> AbsentFile]
  /\ snap = [p \in Procs |-> NoSnap]
  /\ saved = [p \in Procs |-> "none"]
  /\ calls = [p \in Procs |-> 0]
  /\ prev = [p \in Procs |-> NoCall]
  /\ last_writer = 0

NextConc ==
  \/ \E p \in Procs : \E pr \in Prompts, uc \in BOOLEAN : Begin(p, pr, uc)
  \/ \E p \in Procs : \E io_fail \in BOOLEAN : LoadCache(p, io_fail)
  \/ \E p \in Procs : \E ok \in BOOLEAN :
        \E text \in (IF ok THEN RawTexts ELSE FailureDetails) : Generate(p, ok, text)
  \/ \E p \in Procs : \E io_fail \in BOOLEAN : ReloadCache(p, io_fail)
  \/ \E p \in Procs : \E io_fail \in BOOLEAN : SaveOpen(p, io_fail)
  \/ \E p \in Procs : \E io_fail \in BOOLEAN : SaveDump(p, io_fail)

SpecConc == InitConc /\ [][NextConc]_vars

\* ---------------------------------------------------------- properties
Finished(p) == pc[p] \in {"done", "raised"}
Generated(p) == Count(trace[p], "generate")
LogLines(p) == SelectSeq(trace[p], LAMBDA e : e.ev = "log")
EndsWith(msg, e) == Len(msg) >= Len(e) /\ SubSeq(msg, Len(msg) - Len(e) + 1, Len(msg)) = e

\* the running call of Main repeats the call Main completed just before
Repeats == /\ Finished(Main)
           /\ use_cache[Main] /\ prev[Main].use_cache
           /\ prev[Main].prompt = prompt[Main]

\* C1 as stated: two calls in a row with the same prompt and use_cache=True
\* return identical responses and the second one does not invoke the endpoint.
C1_AnyRepeat ==
  Repeats => /\ result[Main].kind = "value"
             /\ result[Main] = prev[Main].result
             /\ Generated(Main) = 0

\* C1 amended: when the first call ended with the prompt stored in the cache
\* file (a cache hit, or a live response saved without error) and the second
\* call reads the file without failure, the second call returns the identical
\* response and does not invoke the endpoint.
C1_Idempotent ==
  ( /\ Repeats
    /\ prev[Main].result.kind = "value"
    /\ prev[Main].generated = 0 \/ prev[Main].saved = "ok"
    /\ \A i \in 1..Len(trace[Main]) : trace[Main][i].level # "WARNING" )
  => /\ result[Main].kind = "value"
     /\ result[Main] = prev[Main].result
     /\ Generated(Main) = 0

C1_Witness ==
  /\ Repeats
  /\ prev[Main].saved = "ok" /\ prev[Main].generated = 1
  /\ result[Main] = prev[Main].result
  /\ Generated(Main) = 0

\* C2: a finished call with use_cache=False has invoked the endpoint, whatever
\* the cache file held, also when the prompt was a key of the cache.
C2_Bypass ==
  \A p \in Procs : (Finished(p) /\ ~use_cache[p]) =>
      /\ Generated(p) >= 1
      /\ reply[p].called

C2_Witness ==
  /\ pc[Main] = "done" /\ ~use_cache[Main]
  /\ file0[Main].kind = "json_object" /\ prompt[Main] \in DOMAIN file0[Main].data
  /\ file = file0[Main]
  /\ Generated(Main) = 1

\* C3 as stated: when the endpoint invocation fails, the call returns the
\* fixed prefix followed by the failure detail, and this returned value is
\* what an error-severity log line carries.
C3_ReturnedValueLogged ==
  \A p \in Procs : (reply[p].called /\ ~reply[p].ok) =>
      /\ result[p].kind = "value"
      /\ result[p].value =
           <<"Error: Could not get response from Ollama. Details: ">> \o reply[p].text
      /\ \E i \in 1..Len(trace[p]) :
            /\ trace[p][i].ev = "log" /\ trace[p][i].level = "ERROR"
            /\ EndsWith(trace[p][i].msg, result[p].value)

\* C3 amended: when the endpoint invocation fails with detail e, the call
\* raises nothing and returns the fixed prefix followed by e; the line logged
\* at error severity carries e (behind "Error calling Ollama: "), not the
\* returned string.
C3_ErrorFormat ==
  \A p \in Procs : (reply[p].called /\ ~reply[p].ok) =>
      /\ pc[p] = "done"
      /\ result[p].kind = "value"
      /\ result[p].value =
           <<"Error: Could not get response from Ollama. Details: ">> \o reply[p].text
      /\ \E i \in 1..Len(trace[p]) :
            /\ trace[p][i].ev = "log" /\ trace[p][i].level = "ERROR"
            /\ EndsWith(trace[p][i].msg, reply[p].text)

C3_Witness ==
  /\ pc[Main] = "done" /\ reply[Main].called /\ ~reply[Main].ok
  /\ use_cache[Main] /\ result[Main].kind = "value"
  /\ Len(result[Main].value) = 2

\* C4: with a cache file that holds invalid content when the call begins, a
\* call with use_cache=True raises nothing, invokes the endpoint and returns
\* the live response.
C4_CorruptCacheSucceeds ==
  \A p \in Procs : (Finished(p) /\ use_cache[p] /\ file0[p].kind \in CorruptKinds) =>
      /\ result[p].kind = "value"
      /\ Generated(p) = 1
      /\ reply[p].ok => result[p].value = strip(reply[p].text)

\* C5: when the write of the cache file fails after a successful endpoint
\* invocation, the call returns the trimmed live response, raises nothing,
\* and the failure is logged at error severity.
C5_WriteFailure ==
  \A p \in Procs : (Finished(p) /\ saved[p] = "failed") =>
      /\ pc[p] = "done"
      /\ reply[p].ok
      /\ result[p] = Returned(strip(reply[p].text))
      /\ \E i \in 1..Len(trace[p]) :
            /\ trace[p][i].ev = "log" /\ trace[p][i].level = "ERROR"
            /\ Head(trace[p][i].msg) = "Failed to save cache to 'llm_cache.json': "

C5_Witness ==
  /\ pc[Main] = "done" /\ saved[Main] = "failed"
  /\ reply[Main].text = <<" ", "a", "\n">>
  /\ result[Main].value = <<"a">>
  /\ file = TruncatedFile /\ file0[Main].kind = "json_object"

\* C6: after a call with use_cache=True that missed, got a reply and saved
\* without error, the cache file maps the prompt to the returned string, which
\* is the trimmed reply; from an empty cache the file is exactly {P: R}.
EmptyCacheFile(f) == f.kind = "absent" \/ (f.kind = "json_object" /\ DOMAIN f.data = {})

C6_SavedEntry ==
  (pc[Main] = "done" /\ use_cache[Main] /\ reply[Main].ok /\ saved[Main] = "ok") =>
      /\ file.kind = "json_object"
      /\ prompt[Main] \in DOMAIN file.data
      /\ result[Main].kind = "value"
      /\ file.data[prompt[Main]] = result[Main].value
      /\ result[Main].value = strip(reply[Main].text)
      /\ EmptyCacheFile(file0[Main]) => DOMAIN file.data = {prompt[Main]}

C6_Witness ==
  /\ pc[Main] = "done" /\ use_cache[Main] /\ saved[Main] = "ok"
  /\ file0[Main] = AbsentFile
  /\ reply[Main].text = <<" ", "a", "\n">>
  /\ DOMAIN file.data = {prompt[Main]}
  /\ file.data[prompt[Main]] = <<"a">>

\* C7: when two concurrent calls with use_cache=True have both returned their
\* live responses after saving without error, the file is the one the last
\* writer wrote: it holds the last writer's entry (last full-file write wins).
BothSaved ==
  \A p \in Procs : /\ pc[p] = "done" /\ use_cache[p]
                   /\ reply[p].ok /\ saved[p] = "ok"
                   /\ result[p] = Returned(strip(reply[p].text))

C7_LastWriteWins ==
  BothSaved => /\ last_writer \in Procs
               /\ file.kind = "json_object"
               /\ prompt[last_writer] \in DOMAIN file.data
               /\ file.data[prompt[last_writer]] = result[last_writer].value

\* the lost update: both calls returned, one of the two entries is missing
C7_LostUpdate ==
  /\ BothSaved
  /\ prompt[1] # prompt[2]
  /\ \A p \in Procs : file0[p] = AbsentFile
  /\ \E p \in Procs : prompt[p] \notin DOMAIN file.data

\* C8: every finished call has returned a string, which is the cached value of
\* the prompt, the trimmed live response or the error sentinel; nothing is
\* raised out of call_llm.
C8_AlwaysReturns ==
  \A p \in Procs : Finished(p) =>
      /\ pc[p] = "done"
      /\ result[p].kind = "value"
      /\ \/ /\ ~reply[p].called
            /\ file0[p].kind = "json_object"
            /\ prompt[p] \in DOMAIN file0[p].data
            /\ result[p].value = file0[p].data[prompt[p]]
         \/ /\ reply[p].called /\ reply[p].ok
            /\ result[p].value = strip(reply[p].text)
         \/ /\ reply[p].called /\ ~reply[p].ok
            /\ result[p].value =
                 <<"Error: Could not get response from Ollama. Details: ">> \o reply[p].text

\* C9: the first thing a call does is log the prompt, each event is logged in
\* one line, and a completed call has logged exactly one outcome line: the
\* cached response on a hit, the live response on a reply, the error detail
\* on an endpoint failure.
OutcomeTags == {"RESPONSE (cached): ", "RESPONSE (Ollama): ", "Error calling Ollama: "}
OutcomeLines(p) ==
  SelectSeq(trace[p], LAMBDA e : e.ev = "log" /\ Head(e.msg) \in OutcomeTags)
PromptLines(p) ==
  SelectSeq(trace[p], LAMBDA e : e.ev = "log" /\ Head(e.msg) = "PROMPT: ")

C9_LogOrdering ==
  \A p \in Procs : pc[p] # "idle" =>
      /\ trace[p] # <<>>
      /\ trace[p][1] = [ev |-> "log", level |-> "INFO", msg |-> <<"PROMPT: ", prompt[p]>>]
      /\ Len(PromptLines(p)) = 1
      /\ Len(OutcomeLines(p)) <= 1
      /\ pc[p] = "done" =>
           /\ Len(OutcomeLines(p)) = 1
           /\ OutcomeLines(p)[1].msg =
                IF ~reply[p].called THEN <<"RESPONSE (cached): ">> \o result[p].value
                ELSE IF reply[p].ok THEN <<"RESPONSE (Ollama): ">> \o result[p].value
                ELSE <<"Error calling Ollama: ">> \o reply[p].text

C9_Witness ==
  /\ pc[Main] = "done" /\ use_cache[Main] /\ ~reply[Main].called
  /\ Len(LogLines(Main)) = 2
  /\ Count(trace[Main], "read") = 1
  /\ Head(OutcomeLines(Main)[1].msg) = "RESPONSE (cached): "

\* C10: however often the module body ran, the logger has at most one handler
\* and does not propagate, so a log call writes its record once.
C10_LoggerIdempotent ==
  \A p \in Procs : imports[p] >= 1 =>
      /\ Len(handlers[p]) <= 1
      /\ ~propagate[p]
      /\ Len(Emit(p, "INFO", PromptLine("P1"))) = 1

C10_Witness ==
  /\ imports[Main] >= 2
  /\ handlers[Main] = <<"file_handler">>
  /\ pc[Main] = "done" /\ Len(PromptLines(Main)) = 1

\* ---- the reload before the save
\* process p wrote the file now on disk, after a reload that read the file
WroteAfterReload(p) ==
  /\ pc[p] = "done" /\ use_cache[p] /\ saved[p] = "ok"
  /\ last_writer = p /\ file.kind = "json_object"

Entries(f) == IF f.kind = "json_object" THEN DOMAIN f.data ELSE {}

\* C11 as stated: every entry the cache file held at the moment of the reload
\* is in the file the call writes.
C11_ReloadKeepsAll ==
  \A p \in Procs : WroteAfterReload(p) =>
      \A k \in Entries(snap[p].reload) :
          k \in DOMAIN file.data /\ file.data[k] = snap[p].reload.data[k]

\* C11 amended: when the reload reads the file without failure, every entry of
\* another prompt that the file held at the moment of the reload, also one
\* written after the first load, is in the file the call writes, and the
\* prompt's entry is the call's own response; the mapping of the first load
\* is not what is written.
C11_ReloadKeeps ==
  \A p \in Procs :
      ( /\ WroteAfterReload(p)
        /\ \A i \in 1..Len(trace[p]) : trace[p][i].level # "WARNING" \/
              Head(trace[p][i].msg) # "Failed to reload cache before saving: " )
      => /\ DOMAIN file.data = Entries(snap[p].reload) \cup {prompt[p]}
         /\ \A k \in Entries(snap[p].reload) \ {prompt[p]} :
               file.data[k] = snap[p].reload.data[k]
         /\ file.data[prompt[p]] = result[p].value

\* an entry that appeared between the two reads of process 1 is in its file
C11_Witness ==
  /\ WroteAfterReload(1)
  /\ prompt[1] = "P1" /\ prompt[2] = "P2"
  /\ snap[1].load = AbsentFile
  /\ Entries(snap[1].reload) = {"P2"}
  /\ DOMAIN file.data = {"P1", "P2"}
  /\ file.data["P2"] = result[2].value

\* C12: a call invokes the endpoint at most once; after an endpoint failure
\* the call is over with the error sentinel, and a call that returned the
\* cached response has not invoked the endpoint.
C12_NoRetry ==
  \A p \in Procs :
      /\ Generated(p) <= 1
      /\ (reply[p].called /\ ~reply[p].ok) =>
            /\ pc[p] = "done"
            /\ Generated(p) = 1
            /\ result[p].value =
                 <<"Error: Could not get response from Ollama. Details: ">> \o reply[p].text
      /\ (pc[p] = "done" /\ Len(OutcomeLines(p)) >= 1
             /\ Head(OutcomeLines(p)[1].msg) = "RESPONSE (cached): ") =>
            /\ Generated(p) = 0
            /\ Len(OutcomeLines(p)) = 1

C12_Witness ==
  /\ pc[Main] = "done" /\ use_cache[Main]
  /\ reply[Main].called /\ ~reply[Main].ok
  /\ Generated(Main) = 1
  /\ file0[Main] = AbsentFile /\ ~exists(file)

\* C14: a step changes the cache file only when it belongs to a call with
\* use_cache=True whose endpoint invocation succeeded, so a cache hit, a call
\* with use_cache=False and a call whose endpoint invocation failed leave the
\* file as it was, and no value in the file is an error sentinel.
IsSentinel(v) ==
  v # <<>> /\ Head(v) = "Error: Could not get response from Ollama. Details: "

C14_WriteFrame ==
  /\ [][file' # file =>
          \E p \in Procs : /\ pc[p] \in {"save", "dump"}
                           /\ use_cache[p]
                           /\ reply[p].called /\ reply[p].ok]_vars
  /\ [](\A k \in Entries(file) : ~IsSentinel(file.data[k]))

C14_Witness ==
  /\ pc[Main] = "done" /\ use_cache[Main]
  /\ reply[Main].called /\ ~reply[Main].ok
  /\ IsSentinel(result[Main].value)
  /\ Entries(file0[Main]) = {"P2"} /\ prompt[Main] = "P1"
  /\ file = file0[Main]

\* ---- the model identifier and the cache
NoLoadFailure(p) ==
  \A i \in 1..Len(trace[p]) :
      trace[p][i].ev = "log" => Head(trace[p][i].msg) # "Failed to load cache file 'llm_cache.json': "

\* the call before saved the prompt's response under another model identifier
CachedUnderOtherModel ==
  /\ Repeats
  /\ prev[Main].saved = "ok"
  /\ prev[Main].model # getenv_model(environ[Main])

\* C13 as stated: a prompt cached under one model identifier is answered from
\* the cache, without the endpoint, by a later call under another identifier.
C13_AnyLaterCall ==
  CachedUnderOtherModel => /\ result[Main] = prev[Main].result
                           /\ Generated(Main) = 0

\* C13 amended: the same, for a later call whose read of the cache file
\* succeeds: whatever the model identifier in force, a call with
\* use_cache=True that finds its prompt in the file returns the value stored
\* there and does not invoke the endpoint.
C13_KeyedByPrompt ==
  /\ (CachedUnderOtherModel /\ NoLoadFailure(Main)) =>
        /\ result[Main] = prev[Main].result
        /\ Generated(Main) = 0
  /\ \A m \in ModelEnv :
        ( /\ Finished(Main) /\ use_cache[Main] /\ environ[Main] = m
          /\ prompt[Main] \in Entries(file0[Main])
          /\ NoLoadFailure(Main) )
        => /\ result[Main] = Returned(file0[Main].data[prompt[Main]])
           /\ Generated(Main) = 0

C13_Witness ==
  /\ CachedUnderOtherModel
  /\ prev[Main].generated = 1
  /\ prev[Main].model = "qwen2.5-32k" /\ environ[Main] = "llama3"
  /\ pc[Main] = "done" /\ Generated(Main) = 0
  /\ result[Main] = prev[Main].result

\* ---- growth of the cache, one call at a time
\* every entry the file held when the call of Main began is still there
KeepsEntries ==
  \A k \in Entries(file0[Main]) :
      /\ file.kind = "json_object"
      /\ k \in DOMAIN file.data
      /\ file.data[k] = file0[Main].data[k]

NoReadFailure(p) ==
  \A i \in 1..Len(trace[p]) : trace[p][i].level # "WARNING"

====
